---------------------------- MODULE Spec2Model ----------------------------
(***************************************************************************)
(* Model of the tilt optimisation engine of backend/optimization/          *)
(* tilt_optimizer.py (with the solar geometry helpers that                 *)
(* backend/solar_utils/solar_geometry.py duplicates).                      *)
(*                                                                         *)
(* One call of get_optimization_result is a run of the state machine:      *)
(*   "call"     the arguments are bound, nothing has run yet               *)
(*   "loop"     find_best_tilt has computed solar_elev and loss and is     *)
(*              sweeping the range; tilt is the next value of the iterator *)
(*   "returned" find_best_tilt has returned its 5-tuple                    *)
(*   "done"     get_optimization_result has built its result               *)
(*                                                                         *)
(* Python floats are modelled in fixed point:                              *)
(*   latitude            in 1/LatScale degrees                             *)
(*   sin, cos            in 1/TrigScale                                    *)
(*   angles (elevation)  in 1/AngleScale degrees, AngleScale =             *)
(*                       LatScale * TrigScale                              *)
(*   loss                in 1/LossScale                                    *)
(*   effective irradiance in 1/TrigScale W/m2                              *)
(*   net energy          in 1/EnergyScale, EnergyScale = TrigScale *       *)
(*                       LossScale                                         *)
(*   values rounded to 2 decimals (round(x, 2)) in 1/CentScale             *)
(* hour and ghi are whole numbers.  NaN and infinities are not modelled.   *)
(***************************************************************************)
EXTENDS Integers, Sequences, FiniteSets

VARIABLES
    ghi, latitude, hour, tilt_min, tilt_max,   \* arguments of the call
    rf_model,                                  \* the scorer bound at import
    pc,                                        \* position in the call
    solar_elev, loss,                          \* find_best_tilt, lines 91-93
    best_tilt, best_energy, all_results,       \* find_best_tilt, lines 95-97
    tilt, eff_irr, net_energy,                 \* loop variable and loop locals
    default_tilt, default_energy,              \* get_optimization_result, 152-156
    result                                     \* dict returned at line 160

args == <<ghi, latitude, hour, tilt_min, tilt_max, rf_model>>
locals == <<solar_elev, loss, best_tilt, best_energy, all_results,
            tilt, eff_irr, net_energy>>
baseline == <<default_tilt, default_energy>>
vars == <<ghi, latitude, hour, tilt_min, tilt_max, rf_model, pc,
          solar_elev, loss, best_tilt, best_energy, all_results,
          tilt, eff_irr, net_energy, default_tilt, default_energy, result>>

---------------------------------------------------------------------------
(* Bounds of the explored inputs *)

LatStep == 45        \* latitudes are multiples of LatStep/LatScale degrees
MinLatIdx == 1       \* southernmost latitude: -MinLatIdx * LatStep
MaxLatIdx == 5       \* northernmost latitude: MaxLatIdx * LatStep (> 90 deg)
HourStep == 3        \* hours are multiples of HourStep
MaxHourIdx == 6      \* last hour: MaxHourIdx * HourStep
TiltStep == 22       \* tilt_min is a multiple of TiltStep
MaxTiltIdx == 4      \* largest tilt_min: MaxTiltIdx * TiltStep
MaxSpan == 10        \* largest tilt_max - tilt_min
MaxScoreIdx == 2     \* largest scorer output: MaxScoreIdx * ScoreStep

ScoreStep == 90      \* scorer outputs are multiples of ScoreStep/LossScale

GhiValues == {0, 1, 200}

---------------------------------------------------------------------------
(* Fixed-point representation of floats *)

LatScale == 2
TrigScale == 10000
LossScale == 100
CentScale == 100
AngleScale == LatScale * TrigScale
EnergyScale == TrigScale * LossScale

Abs(x) == IF x < 0 THEN -x ELSE x

\* Python's built-in max(a, b) and min(a, b)
Max(a, b) == IF b > a THEN b ELSE a
Min(a, b) == IF b < a THEN b ELSE a

\* n / d rounded to the nearest integer, ties to even (d > 0): Python's
\* round() on the value n/d
RoundHalfEven(n, d) ==
    LET q == n \div d
        r == n % d
    IN  IF 2 * r < d THEN q
        ELSE IF 2 * r > d THEN q + 1
        ELSE IF q % 2 = 0 THEN q ELSE q + 1

\* sin of 0..90 whole degrees, in 1/TrigScale
SinTable == <<
    0, 175, 349, 523, 698, 872, 1045, 1219, 1392, 1564,
    1736, 1908, 2079, 2250, 2419, 2588, 2756, 2924, 3090, 3256,
    3420, 3584, 3746, 3907, 4067, 4226, 4384, 4540, 4695, 4848,
    5000, 5150, 5299, 5446, 5592, 5736, 5878, 6018, 6157, 6293,
    6428, 6561, 6691, 6820, 6947, 7071, 7193, 7314, 7431, 7547,
    7660, 7771, 7880, 7986, 8090, 8192, 8290, 8387, 8480, 8572,
    8660, 8746, 8829, 8910, 8988, 9063, 9135, 9205, 9272, 9336,
    9397, 9455, 9511, 9563, 9613, 9659, 9703, 9744, 9781, 9816,
    9848, 9877, 9903, 9925, 9945, 9962, 9976, 9986, 9994, 9998,
    10000 >>

\* np.sin of a whole number of degrees
SinDeg(d) ==
    LET m == d % 360
    IN  IF m <= 90 THEN SinTable[m + 1]
        ELSE IF m <= 180 THEN SinTable[180 - m + 1]
        ELSE IF m <= 270 THEN -SinTable[m - 180 + 1]
        ELSE -SinTable[360 - m + 1]

\* np.cos of a whole number of degrees
CosDeg(d) == SinDeg(d + 90)

\* np.cos(np.radians(a)) for an angle a >= 0 in 1/AngleScale degrees: the
\* table value at whole degrees, linear in between
CosAngle(a) ==
    LET d == a \div AngleScale
        f == a % AngleScale
        c0 == CosDeg(d)
        c1 == CosDeg(d + 1)
    IN  c0 + (((c1 - c0) * f + AngleScale \div 2) \div AngleScale)

---------------------------------------------------------------------------
(* Loss oracle *)

\* The fallback of predict_loss: 0.15
FallbackLoss == 15

\* mutant: a scoring error yields 0 instead of the fallback
predict_loss_error_zero(rf) ==
    IF rf.kind = "None" THEN 15
    ELSE IF rf.kind = "raises" THEN 0
    ELSE IF rf.value < 0 THEN 0
    ELSE IF rf.value > 100 THEN 100 ELSE rf.value

\* predict_loss(feature_vector).  rf is the scorer: kind "None" (the model
\* file did not load), "raises" (building the frame or predict raises) or
\* "returns" (predict returns value).  The features only reach the scorer.
predict_loss(rf) ==
    IF rf.kind = "None" THEN FallbackLoss
    ELSE IF rf.kind = "raises" THEN FallbackLoss
    ELSE Max(0, Min(rf.value, LossScale))

\* mutant: the loss is not capped
CapLoss_uncapped(l) == l

\* predict_loss lets an exception of the scorer reach its caller: never, the
\* try at lines 40-49 catches every Exception and rf_model None returns first
predict_loss_propagates(rf) == FALSE

\* loss = min(loss, 0.8)
LossCap == 80
CapLoss(l) == Min(l, LossCap)

---------------------------------------------------------------------------
(* Solar geometry *)

\* mutant: the elevation is not floored at 0
solar_elevation_angle_unfloored(lat, h) ==
    (90 * LatScale - Abs(lat)) * SinDeg(15 * (h - 6))

\* mutant: the arch starts at noon instead of 6
solar_elevation_angle_shifted(lat, h) ==
    LET elevation == (90 * LatScale - Abs(lat)) * SinDeg(15 * (h - 12))
    IN  IF elevation > 0 THEN elevation ELSE 0

\* solar_elevation_angle(latitude, hour), in 1/AngleScale degrees
solar_elevation_angle(lat, h) ==
    LET max_elevation == 90 * LatScale - Abs(lat)
        elevation == max_elevation * SinDeg(15 * (h - 6))
    IN  Max(elevation, 0)

\* mutant: the irradiance is not floored at 0
effective_irradiance_unfloored(g, t, elev) ==
    g * CosAngle(Abs(t * AngleScale - elev))

\* effective_irradiance(ghi, tilt, solar_elevation), in 1/TrigScale W/m2
effective_irradiance(g, t, elev) ==
    LET angle_diff == Abs(t * AngleScale - elev)
    IN  Max(g * CosAngle(angle_diff), 0)

---------------------------------------------------------------------------
(* Tilt search: find_best_tilt *)

\* best_tilt = None
NoneTilt == -9999
\* mutant: best_energy starts at 0
InitialBestEnergy_zero == 0 * EnergyScale

\* best_energy = -1
InitialBestEnergy == -1 * EnergyScale

\* mutant: the sweep leaves tilt_max out
RangeStop_exclusive(tmax) == tmax

\* stop of range(tilt_min, tilt_max + 1)
RangeStop(tmax) == tmax + 1

\* mutant: the retained fraction has its sign reversed
NetEnergy_negated(e, l) == e * (l - LossScale)

\* net_energy = eff_irr * (1 - loss)
NetEnergy(e, l) == e * (LossScale - l)

\* round(x, 2) of an energy x: the result is in 1/CentScale
Round2(x) == RoundHalfEven(x, EnergyScale \div CentScale)

\* a value in 1/CentScale, as an energy in 1/EnergyScale
OfCents(c) == c * (EnergyScale \div CentScale)

\* the dict appended to all_results
Candidate(t, e, n) ==
    [tilt |-> t,
     effective_irradiance |-> RoundHalfEven(e, TrigScale \div CentScale),
     net_energy |-> Round2(n)]

\* mutant: a later tilt of equal energy replaces the best
Improves_or_equals(n, best) == n >= best

\* if net_energy > best_energy
Improves(n, best) == n > best

TypeOK ==
    /\ pc \in {"call", "loop", "returned", "done", "raised"}
    /\ ghi \in GhiValues
    /\ tilt_min \in Int /\ tilt_max \in Int

Init ==
    /\ ghi \in GhiValues
    /\ latitude \in {LatStep * k : k \in (-MinLatIdx)..MaxLatIdx}
    /\ hour \in {HourStep * k : k \in 0..MaxHourIdx}
    /\ tilt_min \in {TiltStep * k : k \in 0..MaxTiltIdx}
    /\ tilt_max \in {tilt_min + s : s \in (-1)..MaxSpan}
    /\ rf_model \in {[kind |-> "None", value |-> 0],
                     [kind |-> "raises", value |-> 0]}
                    \cup {[kind |-> "returns", value |-> ScoreStep * k] :
                            k \in (-1)..MaxScoreIdx}
    /\ pc = "call"
    /\ solar_elev = 0
    /\ loss = 0
    /\ best_tilt = NoneTilt
    /\ best_energy = 0
    /\ all_results = <<>>
    /\ tilt = 0
    /\ eff_irr = 0
    /\ net_energy = 0
    /\ default_tilt = 0
    /\ default_energy = 0
    /\ result = [status |-> "pending"]

\* find_best_tilt up to the loop: lines 91-97
FindBestTiltEnter ==
    /\ pc = "call"
    /\ solar_elev' = solar_elevation_angle(latitude, hour)
    /\ IF predict_loss_propagates(rf_model)
       THEN /\ pc' = "raised"
            /\ UNCHANGED <<loss, best_tilt, best_energy, all_results, tilt>>
       ELSE /\ loss' = CapLoss(predict_loss(rf_model))
            /\ best_tilt' = NoneTilt
            /\ best_energy' = InitialBestEnergy
            /\ all_results' = <<>>
            /\ tilt' = tilt_min
            /\ pc' = "loop"
    /\ UNCHANGED <<args, eff_irr, net_energy, baseline, result>>

\* one iteration of the loop: lines 99-111
LoopBody ==
    /\ pc = "loop"
    /\ tilt < RangeStop(tilt_max)
    /\ LET e == effective_irradiance(ghi, tilt, solar_elev)
           n == NetEnergy(e, loss)
       IN  /\ eff_irr' = e
           /\ net_energy' = n
           /\ all_results' = Append(all_results, Candidate(tilt, e, n))
           /\ IF Improves(n, best_energy)
              THEN best_energy' = n /\ best_tilt' = tilt
              ELSE UNCHANGED <<best_energy, best_tilt>>
    /\ tilt' = tilt + 1
    /\ UNCHANGED <<args, pc, solar_elev, loss, baseline, result>>

\* the range is exhausted; return at line 113
FindBestTiltReturn ==
    /\ pc = "loop"
    /\ ~(tilt < RangeStop(tilt_max))
    /\ pc' = "returned"
    /\ UNCHANGED <<args, locals, baseline, result>>

---------------------------------------------------------------------------
(* Result assembly: get_optimization_result after find_best_tilt returns *)

\* mutant: the default tilt is rounded to the nearest degree
DefaultTilt_rounded(lat) == RoundHalfEven(Abs(lat), LatScale)

\* default_tilt = int(abs(latitude))
DefaultTilt(lat) == Abs(lat) \div LatScale

\* best_energy * 0.9, rounded to the nearest representable value
NineTenths(b) == RoundHalfEven(b * 9, 10)

\* next((r['net_energy'] for r in all_results if r['tilt'] == default_tilt),
\*      best_energy * 0.9)
DefaultEnergy(results, dt, b) ==
    LET hits == {i \in 1..Len(results) : results[i].tilt = dt}
    IN  IF hits = {} THEN NineTenths(b)
        ELSE LET first == CHOOSE i \in hits : \A j \in hits : i <= j
             IN  OfCents(results[first].net_energy)

\* n * 10^k / d for n >= 0 and d > 0, as <<quotient, remainder>>
RECURSIVE LongDiv(_, _, _)
LongDiv(n, d, k) ==
    IF k = 0 THEN <<n \div d, n % d>>
    ELSE LET p == LongDiv(n, d, k - 1)
         IN  <<p[1] * 10 + ((p[2] * 10) \div d), (p[2] * 10) % d>>

\* round(n / d * 100, 2) for d > 0, in 1/CentScale percent
RoundedPercent(n, d) ==
    LET p == LongDiv(Abs(n), d, 4)
        q == IF 2 * p[2] < d THEN p[1]
             ELSE IF 2 * p[2] > d THEN p[1] + 1
             ELSE IF p[1] % 2 = 0 THEN p[1] ELSE p[1] + 1
    IN  IF n < 0 THEN -q ELSE q

\* mutant: the guard lets a zero baseline through
HasBaseline_nonnegative(d) == d >= 0

\* the condition of the conditional expression at line 158
HasBaseline(d) == d > 0

\* the division at line 158 raises ZeroDivisionError
DivisionRaises(d) == HasBaseline(d) /\ d = 0

\* round(improvement, 2), in 1/CentScale percent
ImprovementPercent(b, d) ==
    IF HasBaseline(d) THEN RoundedPercent(b - d, d) ELSE 0

\* mutant: the curve takes every 5th candidate starting at the fifth
TiltCurve_from_fifth(results) ==
    [i \in 1..(Len(results) \div 5) |-> results[5 * i]]

\* all_results[::5]
TiltCurve(results) ==
    [i \in 1..((Len(results) + 4) \div 5) |-> results[5 * (i - 1) + 1]]

\* the dict returned at lines 160-178; percentages and rounded values are in
\* 1/CentScale
ResultDict(dt, de) ==
    [optimal_tilt |-> best_tilt,
     estimated_energy |-> Round2(best_energy),
     solar_elevation |-> RoundHalfEven(solar_elev, AngleScale \div CentScale),
     efficiency_loss |-> (loss * 100 * CentScale) \div LossScale,
     efficiency_retained |-> ((LossScale - loss) * 100 * CentScale) \div LossScale,
     default_tilt |-> dt,
     default_energy |-> Round2(de),
     improvement_percent |-> ImprovementPercent(best_energy, de),
     conditions |-> [ghi |-> ghi, latitude |-> latitude, hour |-> hour],
     tilt_curve |-> TiltCurve(all_results)]

\* get_optimization_result from the return of find_best_tilt on: lines 151-178
Assemble ==
    /\ pc = "returned"
    /\ LET dt == DefaultTilt(latitude)
           de == DefaultEnergy(all_results, dt, best_energy)
       IN  /\ default_tilt' = dt
           /\ default_energy' = de
           /\ IF DivisionRaises(de)
              THEN pc' = "raised" /\ UNCHANGED result
              ELSE pc' = "done" /\ result' = ResultDict(dt, de)
    /\ UNCHANGED <<args, locals>>

Next == FindBestTiltEnter \/ LoopBody \/ FindBestTiltReturn \/ Assemble

Spec == Init /\ [][Next]_vars

---------------------------------------------------------------------------
(* Properties *)

\* find_best_tilt has returned (and its locals still hold what it returned)
Returned == pc \in {"returned", "done"}

\* the tilts of range(tilt_min, tilt_max + 1)
Swept == tilt_min..tilt_max

\* the unrounded net energy of tilt t in the current sweep
NetEnergyAt(t) == NetEnergy(effective_irradiance(ghi, t, solar_elev), loss)

\* the largest net_energy recorded in all_results (a non-empty list)
MaxRecorded ==
    LET recorded == {all_results[i].net_energy : i \in 1..Len(all_results)}
    IN  CHOOSE m \in recorded : \A x \in recorded : x <= m

\* the smallest tilt whose recorded net_energy is MaxRecorded
FirstRecordedMax ==
    LET at == {all_results[i].tilt : i \in
                 {j \in 1..Len(all_results) : all_results[j].net_energy = MaxRecorded}}
    IN  CHOOSE t \in at : \A u \in at : t <= u

\* C1 as stated: for tilt_min <= tilt_max, best_energy equals the maximum of
\* the net_energy entries of all_candidates and best_tilt is the smallest
\* tilt whose entry attains it.
C1_AsStated ==
    (Returned /\ tilt_min <= tilt_max) =>
        /\ best_energy = OfCents(MaxRecorded)
        /\ best_tilt = FirstRecordedMax

\* C1 amended: for tilt_min <= tilt_max, best_energy rounded to 2 decimals
\* equals the maximum of the (2-decimal) net_energy entries; best_energy
\* itself is the maximum of the unrounded net energy over the swept tilts,
\* and best_tilt is the smallest swept tilt whose unrounded net energy
\* attains it.
C1_BestIsFirstUnroundedMax ==
    (Returned /\ tilt_min <= tilt_max) =>
        /\ Round2(best_energy) = MaxRecorded
        /\ best_tilt \in Swept
        /\ NetEnergyAt(best_tilt) = best_energy
        /\ \A t \in Swept :
              /\ NetEnergyAt(t) <= best_energy
              /\ t < best_tilt => NetEnergyAt(t) < best_energy

\* a sweep with light in which a later tilt ties with the winner, and the
\* winner's energy is not a whole number of hundredths
C1_Witness ==
    /\ pc = "returned"
    /\ ghi > 0
    /\ best_energy > 0
    /\ best_energy # OfCents(Round2(best_energy))
    /\ \E t \in Swept : t > best_tilt /\ NetEnergyAt(t) = best_energy

\* C2: for tilt_min <= tilt_max, all_candidates has tilt_max - tilt_min + 1
\* entries whose tilts are tilt_min, tilt_min + 1, ..., tilt_max in order.
C2_SweepIsInclusive ==
    (Returned /\ tilt_min <= tilt_max) =>
        /\ Len(all_results) = tilt_max - tilt_min + 1
        /\ \A i \in 1..Len(all_results) : all_results[i].tilt = tilt_min + i - 1

C2_Witness ==
    /\ pc = "returned"
    /\ tilt_min < tilt_max
    /\ Len(all_results) > 2
    /\ all_results[1].tilt = tilt_min
    /\ all_results[Len(all_results)].tilt = tilt_max

\* C3: whatever the scorer returns, the loss used in net_energy =
\* eff_irr * (1 - loss) and returned to the caller is within [0, 0.8].
C3_LossWithinCap ==
    /\ pc # "call" => (0 <= loss /\ 10 * loss <= 8 * LossScale)
    /\ (pc = "loop" /\ Len(all_results) > 0) =>
           net_energy = eff_irr * (LossScale - loss)
    /\ pc = "done" =>
           (0 <= result.efficiency_loss /\ result.efficiency_loss <= 80 * CentScale)

\* the scorer returned more than 1 and the sweep ran with 0.8
C3_Witness ==
    /\ pc = "loop"
    /\ Len(all_results) > 0
    /\ rf_model.kind = "returns"
    /\ rf_model.value > LossScale
    /\ 10 * loss = 8 * LossScale
    /\ net_energy > 0

\* C4: with no scorer, or a scorer that raises, predict_loss raises nothing
\* to its caller and the loss is exactly 0.15, so the call does not fail and
\* its result has efficiency_loss = 15.0.
C4_FallbackLoss ==
    rf_model.kind \in {"None", "raises"} =>
        /\ pc # "raised"
        /\ pc # "call" => 100 * loss = 15 * LossScale
        /\ pc = "done" => result.efficiency_loss = 15 * CentScale

C4_Witness ==
    /\ rf_model.kind = "raises"
    /\ pc = "done"
    /\ result.efficiency_loss = 15 * CentScale
    /\ result.estimated_energy > 0

\* 90 - |latitude|, in 1/AngleScale degrees
MaxElevation == (90 * LatScale - Abs(latitude)) * TrigScale

\* C5 as stated: for all latitude and hour,
\* 0 <= solar_elevation_angle(latitude, hour) <= 90 - |latitude|.
C5_AsStated ==
    pc # "call" => (0 <= solar_elev /\ solar_elev <= MaxElevation)

\* C5 amended: for all latitude and hour the elevation is >= 0, and for
\* |latitude| <= 90 it is <= 90 - |latitude|.
C5_ElevationBounds ==
    pc # "call" =>
        /\ 0 <= solar_elev
        /\ Abs(latitude) <= 90 * LatScale => solar_elev <= MaxElevation

\* a daytime elevation strictly between the bounds
C5_Witness ==
    /\ pc = "loop"
    /\ Abs(latitude) < 90 * LatScale
    /\ 0 < solar_elev
    /\ solar_elev < MaxElevation

\* C6 as stated: the elevation is 0 at hour 6 and attains its maximum over
\* hour at hour 18, where it equals 90 - |latitude|.
C6_AsStated ==
    pc # "call" =>
        /\ hour = 6 => solar_elev = 0
        /\ solar_elev <= solar_elevation_angle(latitude, 18)
        /\ hour = 18 => solar_elev = MaxElevation

\* C6 amended: for any latitude the elevation is 0 at hour 6; for
\* |latitude| <= 90 it attains its maximum over hour at hour 12, where it
\* equals 90 - |latitude| (solar_elevation_angle(30, 12) = 60).
C6_PeakAtNoon ==
    pc # "call" =>
        /\ hour = 6 => solar_elev = 0
        /\ Abs(latitude) <= 90 * LatScale =>
              /\ solar_elev <= solar_elevation_angle(latitude, 12)
              /\ hour = 12 => solar_elev = MaxElevation
        /\ solar_elevation_angle(30 * LatScale, 12) = 60 * AngleScale

C6_Witness ==
    /\ pc = "loop"
    /\ latitude = 45 * LatScale
    /\ hour = 12
    /\ solar_elev = 45 * AngleScale

\* C7: for ghi >= 0 the effective irradiance is >= 0, and it equals ghi
\* exactly when the tilt equals the solar elevation.  (eff_irr is the value
\* computed by the last iteration, for tilt - 1.)
C7_IrradianceNonNegative ==
    (pc = "loop" /\ Len(all_results) > 0 /\ ghi >= 0) =>
        /\ eff_irr >= 0
        /\ (tilt - 1) * AngleScale = solar_elev => eff_irr = ghi * TrigScale

C7_Witness ==
    /\ pc = "loop"
    /\ Len(all_results) > 0
    /\ ghi > 0
    /\ solar_elev > 0
    /\ (tilt - 1) * AngleScale = solar_elev
    /\ eff_irr = ghi * TrigScale

\* default_tilt lies in the swept range
DefaultInRange == tilt_min <= default_tilt /\ default_tilt <= tilt_max

\* the baseline parts of C8: the recorded net_energy of default_tilt when it
\* was swept, and best_energy * 0.9 (to the nearest representable value)
\* when it was not
BaselineEnergy ==
    /\ DefaultInRange =>
          default_energy =
              OfCents(all_results[default_tilt - tilt_min + 1].net_energy)
    /\ ~DefaultInRange =>
          /\ 10 * default_energy - 9 * best_energy <= 5
          /\ 9 * best_energy - 10 * default_energy <= 5

\* C8 as stated: default_tilt = round(|latitude|); default_energy is the
\* recorded net_energy of that tilt when it is in [tilt_min, tilt_max] and
\* best_energy * 0.9 otherwise.
C8_AsStated ==
    pc = "done" =>
        /\ default_tilt = RoundHalfEven(Abs(latitude), LatScale)
        /\ BaselineEnergy

\* C8 amended: default_tilt = int(|latitude|), that is |latitude| with its
\* fraction dropped; default_energy is the recorded net_energy of that tilt
\* when it is in [tilt_min, tilt_max] and best_energy * 0.9 otherwise.
C8_DefaultTiltTruncates ==
    pc = "done" =>
        /\ default_tilt * LatScale <= Abs(latitude)
        /\ Abs(latitude) < (default_tilt + 1) * LatScale
        /\ result.default_tilt = default_tilt
        /\ BaselineEnergy

\* a latitude with a fraction of a degree whose truncation was swept
C8_Witness ==
    /\ pc = "done"
    /\ Abs(latitude) % LatScale # 0
    /\ DefaultInRange
    /\ default_energy > 0

\* C9: improvement_percent is (best_energy - default_energy) /
\* default_energy * 100 rounded to 2 decimals when default_energy > 0, and 0
\* when default_energy <= 0; the division never raises.
C9_ImprovementGuarded ==
    /\ pc # "raised"
    /\ pc = "done" =>
          /\ default_energy > 0 =>
                result.improvement_percent =
                    RoundedPercent(best_energy - default_energy, default_energy)
          /\ default_energy <= 0 => result.improvement_percent = 0

C9_Witness ==
    /\ pc = "done"
    /\ DefaultInRange
    /\ default_energy > 0
    /\ result.improvement_percent > 100

\* C10: with ghi = 0 and tilt_min <= tilt_max every candidate has
\* net_energy 0 and the optimal tilt is tilt_min.
C10_DarkSweep ==
    (ghi = 0 /\ tilt_min <= tilt_max) =>
        /\ Returned =>
              /\ \A i \in 1..Len(all_results) : all_results[i].net_energy = 0
              /\ best_tilt = tilt_min
        /\ pc = "done" => result.optimal_tilt = tilt_min

C10_Witness ==
    /\ pc = "done"
    /\ ghi = 0
    /\ tilt_min < tilt_max
    /\ Len(all_results) > 1
    /\ result.optimal_tilt = tilt_min

\* the number of entries of a list of n candidates taken with stride 5
CurveLen(n) == (n + 4) \div 5

\* C11: tilt_curve holds exactly the candidates at positions 0, 5, 10, ... of
\* the ascending sweep (tilts tilt_min, tilt_min + 5, ...), in order, so for
\* tilt_min <= tilt_max it has ceil((tilt_max - tilt_min + 1) / 5) entries;
\* a sweep of 61 candidates (0..60) gives 13.
C11_CurveIsEveryFifth ==
    (pc = "done" /\ tilt_min <= tilt_max) =>
        /\ Len(result.tilt_curve) = CurveLen(tilt_max - tilt_min + 1)
        /\ \A i \in 1..Len(result.tilt_curve) :
              /\ result.tilt_curve[i] = all_results[5 * (i - 1) + 1]
              /\ result.tilt_curve[i].tilt = tilt_min + 5 * (i - 1)
        /\ Len(TiltCurve([i \in 1..61 |-> i])) = 13

\* a sweep of 11 candidates, whose curve has the 1st, 6th and 11th
C11_Witness ==
    /\ pc = "done"
    /\ Len(all_results) = 11
    /\ Len(result.tilt_curve) = 3
    /\ result.tilt_curve[3].tilt = tilt_max
    /\ result.tilt_curve[2].net_energy > 0

\* optimal_tilt is an integer of the range and both energies are >= 0
SaneResult ==
    /\ result.optimal_tilt # NoneTilt
    /\ tilt_min <= result.optimal_tilt
    /\ result.optimal_tilt <= tilt_max
    /\ result.estimated_energy >= 0
    /\ result.default_energy >= 0

\* C12 as stated: for every call, tilt_min > tilt_max included, optimal_tilt
\* is an integer with tilt_min <= optimal_tilt <= tilt_max and
\* estimated_energy and default_energy are >= 0.
C12_AsStated == pc = "done" => SaneResult

\* C12 amended: for tilt_min <= tilt_max, optimal_tilt is an integer with
\* tilt_min <= optimal_tilt <= tilt_max and estimated_energy and
\* default_energy are >= 0; for tilt_min > tilt_max the result has
\* optimal_tilt None, estimated_energy -1 and default_energy -0.9.
C12_SaneForNonEmptyRange ==
    pc = "done" =>
        /\ tilt_min <= tilt_max => SaneResult
        /\ tilt_min > tilt_max =>
              /\ result.optimal_tilt = NoneTilt
              /\ result.estimated_energy = -1 * CentScale
              /\ 10 * result.default_energy = -9 * CentScale

\* a sweep whose optimum is strictly inside the range, baseline not swept
C12_Witness ==
    /\ pc = "done"
    /\ tilt_min < result.optimal_tilt
    /\ result.optimal_tilt < tilt_max
    /\ ~DefaultInRange
    /\ result.estimated_energy > 0
    /\ result.default_energy > 0

\* C13: whenever default_tilt lies in [tilt_min, tilt_max], default_energy
\* <= best_energy and so improvement_percent >= 0; when optimal_tilt equals
\* default_tilt, improvement_percent is 0.
C13_BaselineNeverBeatsBest ==
    (pc = "done" /\ DefaultInRange) =>
        /\ default_energy <= best_energy
        /\ result.improvement_percent >= 0
        /\ result.optimal_tilt = default_tilt => result.improvement_percent = 0

=============================================================================
